---------------------------- MODULE Spec2Model ----------------------------
(***************************************************************************)
(* Groupie-Tracker: the cache-fronted API aggregation client of            *)
(* src/Projet/main.go (APIClient: fetchURL, the eight retrieval methods,   *)
(* GetArtistComplete, GetAllArtistsComplete, ClearCache).                  *)
(*                                                                         *)
(* Threads (the goroutines of the web server's request handlers) call the  *)
(* client.  fetchURL is modelled step by step, one step per lock           *)
(* operation or blocking call:                                             *)
(*    "rlock"  -> c.cacheMutex.RLock()                      (line 100)     *)
(*    "lookup" -> the read of c.cache[url], the TTL test and RUnlock       *)
(*                                                          (101-107)      *)
(*    "get"    -> c.httpClient.Get, the status test, io.ReadAll (109-122)  *)
(*    "lock"   -> c.cacheMutex.Lock()                       (line 124)     *)
(*    "write"  -> the store of the entry, Unlock and return (125-131)      *)
(*    "done"   -> fetchURL has returned ret[p] to its caller               *)
(* ClearCache: "clock" (Lock, 308) and "clear" (309-310).                  *)
(*                                                                         *)
(* The clock counts ticks of 150 seconds, so the 5 minute TTL is 2 ticks.  *)
(***************************************************************************)
EXTENDS Integers, Sequences, FiniteSets, TLC

(***************************************************************************)
(* Bounds of the model.                                                    *)
(***************************************************************************)
NumProcs == 2      \* concurrent callers of the client
MaxClock == 2      \* the clock stops advancing here

(***************************************************************************)
(* Program constants.                                                      *)
(***************************************************************************)
cacheTTL == 2      \* 5 * time.Minute, in ticks of 150 s
StatusOK == 200    \* http.StatusOK

Procs == 1..NumProcs
NoProc == 0

(***************************************************************************)
(* Request URLs.  A URL is the endpoint, or the endpoint followed by the   *)
(* id: fmt.Sprintf("%s/%d", endpoint, id).                                 *)
(***************************************************************************)
ArtistsEndpoint == <<"artists">>
LocationsEndpoint == <<"locations">>
DatesEndpoint == <<"dates">>
RelationEndpoint == <<"relation">>

Endpoints ==
    {ArtistsEndpoint, LocationsEndpoint, DatesEndpoint, RelationEndpoint}

URLWithID(endpoint, id) == Append(endpoint, id)


IDs == {1, 2}          \* artist ids of the upstream indexes
ReqIDs == {1}          \* ids asked for one record at a time
MaxIndexLen == 2       \* longest upstream index

URLs == Endpoints \cup {URLWithID(e, i) : e \in Endpoints, i \in ReqIDs}

(***************************************************************************)
(* Response bodies.  A body is a JSON text: a JSON array of objects, a     *)
(* JSON object, or bytes that are no JSON at all.  A JSON object is the    *)
(* record of the fields the client's structs name (the json tags of lines  *)
(* 23-61); a field the text lacks holds the zero value.  A nil slice and   *)
(* a nil map have length 0 and are the empty sequence and the empty set    *)
(* of <<location, dates>> pairs.                                           *)
(***************************************************************************)
ZeroObj ==
    [id |-> 0, name |-> "", locations |-> <<>>, dates |-> <<>>,
     datesLocations |-> {}, index |-> <<>>]

JArray(items) == [shape |-> "array", items |-> items, obj |-> ZeroObj]
JObject(o) == [shape |-> "object", items |-> <<>>, obj |-> o]
Garbage == [shape |-> "garbage", items |-> <<>>, obj |-> ZeroObj]
NoBody == [shape |-> "nil", items |-> <<>>, obj |-> ZeroObj]

NameOf(id) == IF id = 1 THEN "Queen" ELSE "SOJA"
DLa == {<<"london", <<"2020-01-01">>>>}
DLb == {<<"paris", <<"2020-02-02">>>>}

ArtistObj(id) == [ZeroObj EXCEPT !.id = id, !.name = NameOf(id)]
LocationsObj(id) == [ZeroObj EXCEPT !.id = id, !.locations = <<"london">>]
DatesObj(id) == [ZeroObj EXCEPT !.id = id, !.dates = <<"2020-01-01">>]
RelationObj(id, dl) == [ZeroObj EXCEPT !.id = id, !.datesLocations = dl]
IndexObj(items) == [ZeroObj EXCEPT !.index = items]

SeqsUpTo(S, n) == UNION {[1..k -> S] : k \in 0..n}

ArtistObjs == {ArtistObj(i) : i \in IDs}
RelationObjs == {RelationObj(1, DLa), RelationObj(1, DLb), RelationObj(2, DLb)}

(***************************************************************************)
(* What the upstream API may serve at a URL with status 200.               *)
(***************************************************************************)
BodiesFor(u) ==
    IF u = ArtistsEndpoint
      THEN {JArray(l) : l \in SeqsUpTo(ArtistObjs, MaxIndexLen)}
    ELSE IF u = RelationEndpoint
      THEN {JObject(IndexObj(l)) : l \in SeqsUpTo(RelationObjs, MaxIndexLen)}
    ELSE IF u = LocationsEndpoint
      THEN {JObject(IndexObj(<<LocationsObj(1)>>))}
    ELSE IF u = DatesEndpoint
      THEN {JObject(IndexObj(<<DatesObj(1)>>))}
    ELSE IF u[1] = "artists" THEN {JObject(ArtistObj(u[2]))}
    ELSE IF u[1] = "locations" THEN {JObject(LocationsObj(u[2]))}
    ELSE IF u[1] = "dates" THEN {JObject(DatesObj(u[2]))}
    ELSE {JObject(ZeroObj), JObject(RelationObj(u[2], DLa))}

(***************************************************************************)
(* json.Unmarshal into the client's types.  Decoding into a slice needs a  *)
(* JSON array, decoding into a struct needs a JSON object; fields the      *)
(* struct does not name are dropped.                                       *)
(***************************************************************************)
ToArtist(o) == [ID |-> o.id, Name |-> o.name]
ToLocationsData(o) == [ID |-> o.id, Locations |-> o.locations]
ToDatesData(o) == [ID |-> o.id, Dates |-> o.dates]
ToRelation(o) == [ID |-> o.id, DatesLocations |-> o.datesLocations]

UnmarshalOK(data, kind) ==
    IF kind = "artists" THEN data.shape = "array" ELSE data.shape = "object"

Unmarshal(data, kind) ==
    CASE kind = "artists" ->
           [i \in 1..Len(data.items) |-> ToArtist(data.items[i])]
      [] kind = "artist" -> ToArtist(data.obj)
      [] kind = "locationsIndex" ->
           [Index |-> [i \in 1..Len(data.obj.index) |->
                         ToLocationsData(data.obj.index[i])]]
      [] kind = "locations" -> ToLocationsData(data.obj)
      [] kind = "datesIndex" ->
           [Index |-> [i \in 1..Len(data.obj.index) |->
                         ToDatesData(data.obj.index[i])]]
      [] kind = "dates" -> ToDatesData(data.obj)
      [] kind = "relationIndex" ->
           [Index |-> [i \in 1..Len(data.obj.index) |->
                         ToRelation(data.obj.index[i])]]
      [] kind = "relation" -> ToRelation(data.obj)


(***************************************************************************)
(* State.                                                                  *)
(***************************************************************************)
VARIABLES
    cache,      \* c.cache: a map from URL to [data, timestamp]
    readers,    \* the threads holding c.cacheMutex for reading
    writer,     \* the thread holding c.cacheMutex for writing, or NoProc
    now,        \* the clock read by time.Now and time.Since
    upstream,   \* the bodies the upstream API may serve at each URL
    web,        \* the HTTP request each thread's handler serves, and its
                \* response: [handler, path, method, idStr, id, status, stage]
    pc,         \* each thread's position in fetchURL or ClearCache
    url,        \* fetchURL's argument
    seen,       \* fetchURL's locals of lines 101-102: whether the lookup
                \* found an entry, and its age; kept until the GET
    resp,       \* the outcome of c.httpClient.Get and io.ReadAll
    body,       \* fetchURL's local: the body read from the response
    ret,        \* what fetchURL returned: [ok, hit, err, data]
    gets,       \* HTTP GETs issued by the thread's current client call
    op,         \* the client call the thread is in: [name, kind, id, stage]
    acc,        \* GetArtistComplete's and GetAllArtistsComplete's locals
    result,     \* what the thread's last client call returned
    stale,      \* history: URLs whose entry a ClearCache discarded and
                \* that have not been stored again since
    origin      \* history: for each cached URL, the bytes returned by the
                \* fetchURL call that stored its entry

cacheVars == <<cache, stale, origin>>
lockVars == <<readers, writer>>
envVars == <<now, upstream, web>>
fetchVars == <<pc, url, seen, resp, body, ret>>
callVars == <<gets, op, acc, result>>
vars == <<cacheVars, lockVars, envVars, fetchVars, callVars>>

EmptyCache == [u \in {} |-> NoBody]
NoURL == <<"">>
NoSeen == [exists |-> FALSE, age |-> 0]
NoResp == [sent |-> FALSE, neterr |-> FALSE, status |-> 0, readerr |-> FALSE,
           body |-> NoBody]
NoRet == [ok |-> FALSE, hit |-> FALSE, err |-> "none", data |-> NoBody]
NoOp == [name |-> "none", kind |-> "", id |-> 0, stage |-> ""]
NoWeb == [handler |-> "none", path |-> "", method |-> "", idStr |-> <<>>,
          id |-> 0, status |-> 0, stage |-> "none"]
NoTrace == [artist |-> "skipped", locations |-> "skipped",
            dates |-> "skipped", relation |-> "skipped"]
NoAcc == [artists |-> <<>>, complete |-> ZeroObj, cold |-> {},
          trace |-> NoTrace]
NoResult == [op |-> "none", id |-> 0, err |-> "none", value |-> <<>>,
             trace |-> NoTrace, cold |-> {}, raw |-> NoRet, resp |-> NoResp]

cacheEntry(data, timestamp) == [data |-> data, timestamp |-> timestamp]

\* time.Since(entry.timestamp)
Age(entry) == now - entry.timestamp

\* Variants of the freshness test of line 102: the comparison inverted, and
\* an entry still served at the age of exactly cacheTTL.
FreshInverted(entry) == Age(entry) >= cacheTTL
FreshAtTTL(entry) == Age(entry) <= cacheTTL

\* time.Since(entry.timestamp) < c.cacheTTL
Fresh(entry) == Age(entry) < cacheTTL

\* A variant of the key of line 125: the endpoint without the id.
StoreByEndpoint(u, entry) ==
    [k \in DOMAIN cache \cup {<<u[1]>>} |->
       IF k = <<u[1]>> THEN entry ELSE cache[k]]

\* c.cache[url] = entry
Store(u, entry) ==
    [k \in DOMAIN cache \cup {u} |-> IF k = u THEN entry ELSE cache[k]]

(***************************************************************************)
(* The clock and the upstream API, which the client does not control.      *)
(***************************************************************************)
Tick ==
    /\ now < MaxClock
    /\ now' = now + 1
    /\ UNCHANGED <<upstream, web, cacheVars, lockVars, fetchVars, callVars>>

\* The outcomes of c.httpClient.Get(url) followed by io.ReadAll(resp.Body):
\* a transport error, a status other than 200, a body that cannot be read,
\* or one of the bodies the upstream serves at the URL.
Responses(u) ==
    {[NoResp EXCEPT !.sent = TRUE, !.neterr = TRUE]}
    \cup {[NoResp EXCEPT !.sent = TRUE, !.status = s] : s \in {404, 500}}
    \cup {[NoResp EXCEPT !.sent = TRUE, !.status = StatusOK, !.readerr = TRUE]}
    \cup {[NoResp EXCEPT !.sent = TRUE, !.status = StatusOK, !.body = b] :
            b \in upstream[u]}

(***************************************************************************)
(* fetchURL.                                                               *)
(***************************************************************************)
\* The call c.fetchURL(u) by thread p.
StartFetch(p, u) ==
    /\ pc' = [pc EXCEPT ![p] = "rlock"]
    /\ url' = [url EXCEPT ![p] = u]
    /\ seen' = [seen EXCEPT ![p] = NoSeen]
    /\ resp' = [resp EXCEPT ![p] = NoResp]
    /\ body' = [body EXCEPT ![p] = NoBody]
    /\ ret' = [ret EXCEPT ![p] = NoRet]

\* c.cacheMutex.RLock() (line 100)
RLock(p) ==
    /\ pc[p] = "rlock"
    /\ writer = NoProc
    /\ readers' = readers \cup {p}
    /\ pc' = [pc EXCEPT ![p] = "lookup"]
    /\ UNCHANGED <<writer, url, seen, resp, body, ret>>
    /\ UNCHANGED <<cacheVars, envVars, callVars>>

\* A variant of lines 101-107 without the RUnlock of line 107: the read
\* lock is released on a hit only.
LookupKeepingRLock(p) ==
    /\ pc[p] = "lookup"
    /\ IF url[p] \in DOMAIN cache /\ Fresh(cache[url[p]])
         THEN /\ pc' = [pc EXCEPT ![p] = "done"]
              /\ readers' = readers \ {p}
              /\ ret' = [ret EXCEPT ![p] =
                    [ok |-> TRUE, hit |-> TRUE, err |-> "none",
                     data |-> cache[url[p]].data]]
              /\ seen' = seen
         ELSE /\ pc' = [pc EXCEPT ![p] = "get"]
              /\ readers' = readers
              /\ ret' = ret
              /\ seen' = [seen EXCEPT ![p] =
                    IF url[p] \in DOMAIN cache
                      THEN [exists |-> TRUE, age |-> Age(cache[url[p]])]
                      ELSE NoSeen]
    /\ UNCHANGED <<writer, url, resp, body>>
    /\ UNCHANGED <<cacheVars, envVars, callVars>>

\* Lines 101-107: a fresh entry is returned, anything else goes on to the GET.
Lookup(p) ==
    /\ pc[p] = "lookup"
    /\ readers' = readers \ {p}
    /\ IF url[p] \in DOMAIN cache /\ Fresh(cache[url[p]])
         THEN /\ pc' = [pc EXCEPT ![p] = "done"]
              /\ ret' = [ret EXCEPT ![p] =
                    [ok |-> TRUE, hit |-> TRUE, err |-> "none",
                     data |-> cache[url[p]].data]]
              /\ seen' = seen
         ELSE /\ pc' = [pc EXCEPT ![p] = "get"]
              /\ ret' = ret
              /\ seen' = [seen EXCEPT ![p] =
                    IF url[p] \in DOMAIN cache
                      THEN [exists |-> TRUE, age |-> Age(cache[url[p]])]
                      ELSE NoSeen]
    /\ UNCHANGED <<writer, url, resp, body>>
    /\ UNCHANGED <<cacheVars, envVars, callVars>>

Failure(e) == [ok |-> FALSE, hit |-> FALSE, err |-> e, data |-> NoBody]

\* A variant of lines 109-122 that repeats a failed request once.
HttpGetRetrying(p) ==
    /\ pc[p] = "get"
    /\ gets' = [gets EXCEPT ![p] = @ + 1]
    /\ \E r \in Responses(url[p]) :
         /\ resp' = [resp EXCEPT ![p] = r]
         /\ IF r.neterr \/ r.status # StatusOK \/ r.readerr
              THEN IF gets[p] = 0
                     THEN /\ pc' = pc
                          /\ ret' = ret
                          /\ seen' = seen
                          /\ body' = body
                     ELSE /\ ret' = [ret EXCEPT ![p] =
                                Failure(IF r.neterr THEN "request"
                                        ELSE IF r.status # StatusOK
                                          THEN "status"
                                        ELSE "read")]
                          /\ pc' = [pc EXCEPT ![p] = "done"]
                          /\ seen' = [seen EXCEPT ![p] = NoSeen]
                          /\ body' = body
              ELSE /\ body' = [body EXCEPT ![p] = r.body]
                   /\ pc' = [pc EXCEPT ![p] = "lock"]
                   /\ seen' = [seen EXCEPT ![p] = NoSeen]
                   /\ ret' = ret
    /\ UNCHANGED <<url, op, acc, result>>
    /\ UNCHANGED <<cacheVars, lockVars, envVars>>

\* A variant of lines 109-122 that drops the URL's entry when the upstream
\* answers with a status other than 200.
HttpGetInvalidating(p) ==
    /\ pc[p] = "get"
    /\ gets' = [gets EXCEPT ![p] = @ + 1]
    /\ seen' = [seen EXCEPT ![p] = NoSeen]
    /\ \E r \in Responses(url[p]) :
         /\ resp' = [resp EXCEPT ![p] = r]
         /\ IF r.neterr \/ r.status # StatusOK \/ r.readerr
              THEN /\ ret' = [ret EXCEPT ![p] =
                         Failure(IF r.neterr THEN "request"
                                 ELSE IF r.status # StatusOK THEN "status"
                                 ELSE "read")]
                   /\ pc' = [pc EXCEPT ![p] = "done"]
                   /\ body' = body
                   /\ cache' = IF ~r.neterr /\ r.status # StatusOK
                                 THEN [k \in DOMAIN cache \ {url[p]} |->
                                         cache[k]]
                                 ELSE cache
              ELSE /\ body' = [body EXCEPT ![p] = r.body]
                   /\ pc' = [pc EXCEPT ![p] = "lock"]
                   /\ ret' = ret
                   /\ cache' = cache
    /\ UNCHANGED <<url, op, acc, result, stale, origin>>
    /\ UNCHANGED <<lockVars, envVars>>

\* A variant of lines 109-122 that falls back on the entry of the URL,
\* whatever its age, when the request fails.
HttpGetServingStale(p) ==
    /\ pc[p] = "get"
    /\ gets' = [gets EXCEPT ![p] = @ + 1]
    /\ seen' = [seen EXCEPT ![p] = NoSeen]
    /\ \E r \in Responses(url[p]) :
         /\ resp' = [resp EXCEPT ![p] = r]
         /\ IF r.neterr \/ r.status # StatusOK \/ r.readerr
              THEN /\ ret' = [ret EXCEPT ![p] =
                         IF url[p] \in DOMAIN cache
                           THEN [ok |-> TRUE, hit |-> TRUE, err |-> "none",
                                 data |-> cache[url[p]].data]
                           ELSE Failure(IF r.neterr THEN "request"
                                        ELSE IF r.status # StatusOK
                                          THEN "status"
                                        ELSE "read")]
                   /\ pc' = [pc EXCEPT ![p] = "done"]
                   /\ body' = body
              ELSE /\ body' = [body EXCEPT ![p] = r.body]
                   /\ pc' = [pc EXCEPT ![p] = "lock"]
                   /\ ret' = ret
    /\ UNCHANGED <<url, op, acc, result>>
    /\ UNCHANGED <<cacheVars, lockVars, envVars>>

\* Lines 109-122: one GET; each failure returns its own error.
HttpGet(p) ==
    /\ pc[p] = "get"
    /\ gets' = [gets EXCEPT ![p] = @ + 1]
    /\ seen' = [seen EXCEPT ![p] = NoSeen]
    /\ \E r \in Responses(url[p]) :
         /\ resp' = [resp EXCEPT ![p] = r]
         /\ IF r.neterr
              THEN /\ ret' = [ret EXCEPT ![p] = Failure("request")]
                   /\ pc' = [pc EXCEPT ![p] = "done"]
                   /\ body' = body
            ELSE IF r.status # StatusOK
              THEN /\ ret' = [ret EXCEPT ![p] = Failure("status")]
                   /\ pc' = [pc EXCEPT ![p] = "done"]
                   /\ body' = body
            ELSE IF r.readerr
              THEN /\ ret' = [ret EXCEPT ![p] = Failure("read")]
                   /\ pc' = [pc EXCEPT ![p] = "done"]
                   /\ body' = body
            ELSE /\ body' = [body EXCEPT ![p] = r.body]
                 /\ pc' = [pc EXCEPT ![p] = "lock"]
                 /\ ret' = ret
    /\ UNCHANGED <<url, op, acc, result>>
    /\ UNCHANGED <<cacheVars, lockVars, envVars>>

\* A variant of line 124 that does not wait for the readers to leave.
LockIgnoringReaders(p) ==
    /\ pc[p] = "lock"
    /\ writer = NoProc
    /\ writer' = p
    /\ pc' = [pc EXCEPT ![p] = "write"]
    /\ UNCHANGED <<readers, url, seen, resp, body, ret>>
    /\ UNCHANGED <<cacheVars, envVars, callVars>>

\* c.cacheMutex.Lock() (line 124)
Lock(p) ==
    /\ pc[p] = "lock"
    /\ writer = NoProc
    /\ readers = {}
    /\ writer' = p
    /\ pc' = [pc EXCEPT ![p] = "write"]
    /\ UNCHANGED <<readers, url, seen, resp, body, ret>>
    /\ UNCHANGED <<cacheVars, envVars, callVars>>

\* A variant of lines 125-131 that keeps a fresh entry another call stored
\* in the meantime.
WriteIfAbsent(p) ==
    /\ pc[p] = "write"
    /\ LET keep == url[p] \in DOMAIN cache /\ Fresh(cache[url[p]])
       IN  /\ cache' = IF keep THEN cache
                       ELSE Store(url[p], cacheEntry(body[p], now))
           /\ origin' = IF keep THEN origin
                        ELSE [k \in DOMAIN origin \cup {url[p]} |->
                                IF k = url[p] THEN body[p] ELSE origin[k]]
    /\ writer' = NoProc
    /\ ret' = [ret EXCEPT ![p] =
          [ok |-> TRUE, hit |-> FALSE, err |-> "none", data |-> body[p]]]
    /\ pc' = [pc EXCEPT ![p] = "done"]
    /\ stale' = stale \ {url[p]}
    /\ UNCHANGED <<readers, url, seen, resp, body>>
    /\ UNCHANGED <<envVars, callVars>>

\* Lines 125-131: the entry is stored with time.Now(), and the body returned.
Write(p) ==
    /\ pc[p] = "write"
    /\ cache' = Store(url[p], cacheEntry(body[p], now))
    /\ writer' = NoProc
    /\ ret' = [ret EXCEPT ![p] =
          [ok |-> TRUE, hit |-> FALSE, err |-> "none", data |-> body[p]]]
    /\ pc' = [pc EXCEPT ![p] = "done"]
    /\ stale' = stale \ {url[p]}
    /\ origin' = [k \in DOMAIN origin \cup {url[p]} |->
                    IF k = url[p] THEN ret'[p].data ELSE origin[k]]
    /\ UNCHANGED <<readers, url, seen, resp, body>>
    /\ UNCHANGED <<envVars, callVars>>

(***************************************************************************)
(* ClearCache.                                                             *)
(***************************************************************************)
\* c.cacheMutex.Lock() (line 308)
ClearLock(p) ==
    /\ pc[p] = "clock"
    /\ writer = NoProc
    /\ readers = {}
    /\ writer' = p
    /\ pc' = [pc EXCEPT ![p] = "clear"]
    /\ UNCHANGED <<readers, url, seen, resp, body, ret>>
    /\ UNCHANGED <<cacheVars, envVars, callVars>>

\* A variant of lines 309-310 that discards only the expired entries.
ClearExpired(p) ==
    /\ pc[p] = "clear"
    /\ cache' = [k \in {u \in DOMAIN cache : Fresh(cache[u])} |-> cache[k]]
    /\ writer' = NoProc
    /\ stale' = stale \cup DOMAIN cache
    /\ origin' = [k \in DOMAIN cache' |-> origin[k]]
    /\ pc' = [pc EXCEPT ![p] = "idle"]
    /\ op' = [op EXCEPT ![p] = NoOp]
    /\ UNCHANGED <<readers, url, seen, resp, body, ret, gets, acc, result>>
    /\ UNCHANGED envVars

\* Lines 309-310: a new, empty map replaces the cache.
Clear(p) ==
    /\ pc[p] = "clear"
    /\ cache' = EmptyCache
    /\ writer' = NoProc
    /\ stale' = stale \cup DOMAIN cache
    /\ origin' = EmptyCache
    /\ pc' = [pc EXCEPT ![p] = "idle"]
    /\ op' = [op EXCEPT ![p] = NoOp]
    /\ UNCHANGED <<readers, url, seen, resp, body, ret, gets, acc, result>>
    /\ UNCHANGED envVars

(***************************************************************************)
(* Threads calling fetchURL and ClearCache directly.                       *)
(***************************************************************************)
FetchURLs == {URLWithID(RelationEndpoint, 1), URLWithID(ArtistsEndpoint, 1)}

CallFetchURL(p, u) ==
    /\ pc[p] = "idle"
    /\ op' = [op EXCEPT ![p] = [NoOp EXCEPT !.name = "fetchURL"]]
    /\ gets' = [gets EXCEPT ![p] = 0]
    /\ StartFetch(p, u)
    /\ UNCHANGED <<acc, result>>
    /\ UNCHANGED <<cacheVars, lockVars, envVars>>

\* The thread leaves the client: its locals are gone.
Leave(p) ==
    /\ pc' = [pc EXCEPT ![p] = "idle"]
    /\ op' = [op EXCEPT ![p] = NoOp]
    /\ url' = [url EXCEPT ![p] = NoURL]
    /\ seen' = [seen EXCEPT ![p] = NoSeen]
    /\ resp' = [resp EXCEPT ![p] = NoResp]
    /\ body' = [body EXCEPT ![p] = NoBody]
    /\ ret' = [ret EXCEPT ![p] = NoRet]
    /\ acc' = [acc EXCEPT ![p] = NoAcc]

\* The caller has taken fetchURL's result.
FetchURLReturn(p) ==
    /\ op[p].name = "fetchURL"
    /\ pc[p] = "done"
    /\ Leave(p)
    /\ gets' = [gets EXCEPT ![p] = 0]
    /\ UNCHANGED result
    /\ UNCHANGED <<cacheVars, lockVars, envVars>>

CallClearCache(p) ==
    /\ pc[p] = "idle"
    /\ op' = [op EXCEPT ![p] = [NoOp EXCEPT !.name = "ClearCache"]]
    /\ pc' = [pc EXCEPT ![p] = "clock"]
    /\ UNCHANGED <<url, seen, resp, body, ret, gets, acc, result>>
    /\ UNCHANGED <<cacheVars, lockVars, envVars>>

\* NewAPIClient: an empty cache, an unlocked mutex; every thread is idle.
InitClient ==
    /\ cache = EmptyCache
    /\ readers = {}
    /\ writer = NoProc
    /\ now = 0
    /\ pc = [p \in Procs |-> "idle"]
    /\ url = [p \in Procs |-> NoURL]
    /\ seen = [p \in Procs |-> NoSeen]
    /\ resp = [p \in Procs |-> NoResp]
    /\ body = [p \in Procs |-> NoBody]
    /\ ret = [p \in Procs |-> NoRet]
    /\ gets = [p \in Procs |-> 0]
    /\ op = [p \in Procs |-> NoOp]
    /\ acc = [p \in Procs |-> NoAcc]
    /\ result = [p \in Procs |-> NoResult]
    /\ web = [p \in Procs |-> NoWeb]
    /\ stale = {}
    /\ origin = EmptyCache

\* At the URLs the threads ask for, the upstream serves any document of the
\* API at any time.
Init ==
    /\ InitClient
    /\ upstream = [u \in FetchURLs |-> BodiesFor(u)]

Next ==
    \/ Tick
    \/ \E p \in Procs :
         \/ \E u \in FetchURLs : CallFetchURL(p, u)
         \/ RLock(p)
         \/ Lookup(p)
         \/ HttpGet(p)
         \/ Lock(p)
         \/ Write(p)
         \/ FetchURLReturn(p)
         \/ CallClearCache(p)
         \/ ClearLock(p)
         \/ Clear(p)

Spec == Init /\ [][Next]_vars

(***************************************************************************)
(* Properties of fetchURL and ClearCache, under Spec.  A thread's step is  *)
(* recognised by the change of its pc.                                     *)
(***************************************************************************)

\* C1: a fetchURL call whose lookup finds an entry younger than cacheTTL
\* issues no HTTP GET and returns the bytes returned by the call that
\* stored the entry.
C1_CacheHit ==
    [][\A p \in Procs :
         (/\ pc[p] = "lookup"
          /\ pc'[p] # "lookup"
          /\ url[p] \in DOMAIN cache
          /\ now - cache[url[p]].timestamp < cacheTTL)
         => /\ pc'[p] = "done"
            /\ ret'[p].ok
            /\ ret'[p].data = origin[url[p]]
            /\ gets[p] = 0
            /\ gets'[p] = 0]_vars

\* A call has returned from the cache, without a GET, an entry stored some
\* time ago.
C1_Witness ==
    \E p \in Procs :
        /\ pc[p] = "done"
        /\ ret[p].hit
        /\ gets[p] = 0
        /\ url[p] \in DOMAIN cache
        /\ now - cache[url[p]].timestamp = cacheTTL - 1
        /\ ret[p].data = origin[url[p]]

\* C2: a fetchURL call whose lookup finds an entry whose age is cacheTTL or
\* more does not return at the lookup but goes on to the request, and a call
\* leaves the request only by issuing one HTTP GET.
C2_CacheExpiry ==
    [][\A p \in Procs :
         /\ (/\ pc[p] = "lookup"
             /\ pc'[p] # "lookup"
             /\ url[p] \in DOMAIN cache
             /\ now - cache[url[p]].timestamp >= cacheTTL)
            => (pc'[p] = "get" /\ ret'[p] = NoRet)
         /\ (pc[p] = "get" /\ pc'[p] # "get")
            => gets'[p] = gets[p] + 1]_vars

\* A call is about to issue the GET after finding an entry whose age is
\* exactly cacheTTL.
C2_Witness ==
    \E p \in Procs :
        /\ pc[p] = "get"
        /\ seen[p].exists
        /\ seen[p].age = cacheTTL

\* C3: a fetchURL call whose lookup is for a URL whose entry a completed
\* ClearCache discarded, and that has not been stored since, goes on to the
\* HTTP GET: it does not return a cache hit.
C3_ClearThenFetch ==
    [][\A p \in Procs :
         (pc[p] = "lookup" /\ pc'[p] # "lookup" /\ url[p] \in stale)
         => (pc'[p] = "get" /\ ~ret'[p].hit)]_vars

\* A call is about to issue the GET for a URL that was cleared less than
\* cacheTTL after the client was created: its entry would still be fresh.
C3_Witness ==
    \E p \in Procs :
        /\ pc[p] = "get"
        /\ url[p] \in stale
        /\ now < cacheTTL

\* C4: a fetchURL call fails only at its request, and no step of a call up
\* to and including the request changes the cache map.
C4_FailureKeepsCache ==
    [][\A p \in Procs :
         /\ (pc'[p] = "done" /\ pc[p] # "done" /\ ~ret'[p].ok)
            => pc[p] = "get"
         /\ (pc'[p] # pc[p] /\ pc[p] \in {"idle", "rlock", "lookup", "get"})
            => cache' = cache]_vars

\* A call has failed on a non-200 status while the cache holds an expired
\* entry for its URL and an entry for another URL.
C4_Witness ==
    \E p \in Procs :
        /\ pc[p] = "done"
        /\ ret[p].err = "status"
        /\ url[p] \in DOMAIN cache
        /\ now - cache[url[p]].timestamp >= cacheTTL
        /\ DOMAIN cache # {url[p]}

\* C11: a fetchURL call issues at most one HTTP GET; when the response is
\* a transport error, a status other than 200 or an unreadable body, the
\* same step returns the failure, and a call that has returned issues nothing
\* more.
C11_NoRetry ==
    [][\A p \in Procs :
         /\ gets'[p] <= 1
         /\ gets'[p] # gets[p] =>
              (pc[p] = "get" \/ (pc[p] \in {"idle", "done"} /\ gets'[p] = 0))
         /\ (/\ pc[p] = "get"
             /\ gets'[p] = gets[p] + 1
             /\ \/ resp'[p].neterr
                \/ resp'[p].status # StatusOK
                \/ resp'[p].readerr)
            => /\ pc'[p] = "done"
               /\ ~ret'[p].ok
               /\ ret'[p].err \in {"request", "status", "read"}
         /\ (pc[p] = "done" /\ pc'[p] # "done") => pc'[p] = "idle"]_vars

\* A call has returned a transport failure after its single GET.
C11_Witness ==
    \E p \in Procs :
        /\ pc[p] = "done"
        /\ ret[p].err = "request"
        /\ resp[p].neterr
        /\ gets[p] = 1

\* The thread is between Lock and Unlock: it inserts an entry (lines
\* 125-129) or replaces the map (line 309).
Writing(p) == pc[p] \in {"write", "clear"}

\* The thread is between RLock and RUnlock: it looks the URL up (101-107).
Reading(p) == pc[p] = "lookup"

\* C12: while a call is writing the cache, no other call is reading or
\* writing it; the mutex records exactly the calls that read and the call
\* that writes.
C12_ReadersWriterExclusion ==
    /\ \A p, q \in Procs :
         (Writing(p) /\ q # p) => (~Writing(q) /\ ~Reading(q))
    /\ readers = {p \in Procs : Reading(p)}
    /\ \A p \in Procs : Writing(p) <=> writer = p

\* Two lookups hold read access at the same time.
C12_Witness ==
    \E p, q \in Procs :
        /\ p # q
        /\ Reading(p)
        /\ Reading(q)
        /\ {p, q} \subseteq readers

\* C13: whatever the other calls are doing, a fetchURL call whose lookup
\* finds no fresh entry goes on to a GET of its own; when its body has been
\* read, its insert replaces the URL's entry by that body, and it returns
\* that body.  The cache changes only at an insert or at a clear.
C13_LastWriterWins ==
    [][\A p \in Procs :
         /\ (/\ pc[p] = "lookup"
             /\ pc'[p] # "lookup"
             /\ ~(/\ url[p] \in DOMAIN cache
                  /\ now - cache[url[p]].timestamp < cacheTTL))
            => pc'[p] = "get"
         /\ (pc[p] = "get" /\ pc'[p] # "get")
            => /\ gets'[p] = gets[p] + 1
               /\ pc'[p] = "lock" => body'[p] = resp'[p].body
         /\ (pc[p] = "write" /\ pc'[p] # "write")
            => /\ pc'[p] = "done"
               /\ url[p] \in DOMAIN cache'
               /\ cache'[url[p]].data = resp[p].body
               /\ cache'[url[p]].timestamp = now
               /\ ret'[p].ok
               /\ ~ret'[p].hit
               /\ ret'[p].data = resp[p].body
         /\ cache' # cache =>
              \E q \in Procs : Writing(q) /\ pc'[q] # pc[q]]_vars

\* Two calls for the same URL have each issued a GET and returned its body,
\* the two bodies differ, and the cache holds one of them.
C13_Witness ==
    \E p, q \in Procs :
        /\ p # q
        /\ pc[p] = "done" /\ pc[q] = "done"
        /\ url[p] = url[q]
        /\ ret[p].ok /\ ~ret[p].hit /\ gets[p] = 1
        /\ ret[q].ok /\ ~ret[q].hit /\ gets[q] = 1
        /\ ret[p].data # ret[q].data
        /\ url[p] \in DOMAIN cache
        /\ cache[url[p]].data = ret[q].data

(***************************************************************************)
(* The same threads under a fair scheduler: a goroutine that can take its  *)
(* next step takes it.  The GET returns (the client's timeout of line 92   *)
(* bounds it), and a goroutine waiting for a mutex that stays free gets    *)
(* it.  Nothing makes a thread start a call.                               *)
(***************************************************************************)
Step(p) ==
    \/ RLock(p)
    \/ Lookup(p)
    \/ HttpGet(p)
    \/ Lock(p)
    \/ Write(p)
    \/ ClearLock(p)
    \/ Clear(p)

Fairness ==
    \A p \in Procs :
        /\ WF_vars(RLock(p))
        /\ WF_vars(Lookup(p))
        /\ WF_vars(HttpGet(p))
        /\ WF_vars(Lock(p))
        /\ WF_vars(Write(p))
        /\ WF_vars(ClearLock(p))
        /\ WF_vars(Clear(p))

SpecLive == Init /\ [][Next]_vars /\ Fairness

\* The thread is inside fetchURL or ClearCache.
InCall(p) == pc[p] \notin {"idle", "done"}

\* A thread holds the read lock only at the lookup and the write lock only
\* at the insert or the clear: none at the GET, and none after the return.
LocksReleased ==
    \A p \in Procs :
        /\ p \in readers => pc[p] = "lookup"
        /\ writer = p => pc[p] \in {"write", "clear"}

\* Some thread inside a call can take a step.
NoDeadlock == (\E p \in Procs : InCall(p)) => \E q \in Procs : ENABLED Step(q)

\* A thread at the GET stops neither a lookup nor a ClearCache.
GetBlocksNobody ==
    \A p, q \in Procs :
        (pc[p] = "get" /\ q # p /\ pc[q] \in {"rlock", "lock", "clock"}
         /\ \A o \in Procs \ {p} : o = q \/ ~InCall(o))
        => ENABLED Step(q)

\* A call is started.
NewCall == \E p \in Procs : ~InCall(p) /\ InCall(p)'

\* C16: a call holds no lock outside the lookup, the insert and the clear
\* (none during the GET, none after any return); a thread at the GET does
\* not stop another thread's lookup or ClearCache; some thread inside a call
\* can always step; and once no new call is started, every call returns.
C16_TerminatesAndReleases ==
    /\ [](LocksReleased /\ NoDeadlock /\ GetBlocksNobody)
    /\ (<>[][~NewCall]_vars) => <>[](\A p \in Procs : ~InCall(p))

\* ClearCache replaces the map while another call is at its GET.
C16_Witness ==
    \E p, q \in Procs :
        /\ pc[p] = "get"
        /\ pc[q] = "clear"
        /\ writer = q
        /\ readers = {}

\* The cache holds an entry for u whose age has reached the TTL.
Expired(u) == u \in DOMAIN cache /\ now - cache[u].timestamp >= cacheTTL

\* C18: an expired entry stays in the cache, unchanged, until a fetch of
\* the same URL that succeeded overwrites it or ClearCache discards it; the
\* lookup that finds it expired leaves the cache alone and goes on to the
\* GET; a call returns from the cache only an entry that is not expired, and
\* otherwise the bytes of its own response; when the GET that follows an
\* expired entry fails, the call returns the failure and no bytes.
C18_ExpiredKeptNotServed ==
    [][/\ \A u \in DOMAIN cache :
            (Expired(u) /\ (u \notin DOMAIN cache' \/ cache'[u] # cache[u]))
            => \E q \in Procs :
                 \/ /\ pc[q] = "write" /\ pc'[q] = "done"
                    /\ url[q] = u
                    /\ ret'[q].ok /\ ~ret'[q].hit
                    /\ cache'[u] = cacheEntry(resp[q].body, now)
                 \/ /\ pc[q] = "clear" /\ pc'[q] = "idle"
                    /\ cache' = EmptyCache
       /\ \A p \in Procs :
            /\ (pc[p] = "lookup" /\ pc'[p] # "lookup" /\ Expired(url[p]))
               => /\ cache' = cache
                  /\ pc'[p] = "get"
                  /\ seen'[p].exists
            /\ (pc[p] # "done" /\ pc'[p] = "done" /\ ret'[p].ok)
               => IF ret'[p].hit
                    THEN /\ pc[p] = "lookup"
                         /\ url[p] \in DOMAIN cache
                         /\ ~Expired(url[p])
                         /\ ret'[p].data = cache[url[p]].data
                    ELSE /\ pc[p] = "write"
                         /\ resp[p].status = StatusOK
                         /\ ret'[p].data = resp[p].body
            /\ (/\ pc[p] = "get" /\ pc'[p] # "get"
                /\ seen[p].exists
                /\ \/ resp'[p].neterr
                   \/ resp'[p].status # StatusOK
                   \/ resp'[p].readerr)
               => /\ pc'[p] = "done"
                  /\ ~ret'[p].ok
                  /\ ret'[p].data = NoBody
                  /\ cache' = cache]_vars

\* A call whose lookup found the entry expired has failed on an unreadable
\* body; it returned no bytes and the expired entry is still cached.
C18_Witness ==
    \E p \in Procs :
        /\ pc[p] = "done"
        /\ ret[p].err = "read"
        /\ ret[p].data = NoBody
        /\ Expired(url[p])
        /\ cache[url[p]].data # NoBody
        /\ gets[p] = 1

(***************************************************************************)
(* The retrieval methods: GetArtists, GetArtistByID, GetLocations,         *)
(* GetLocationsByArtistID, GetDates, GetDatesByArtistID, GetRelations,     *)
(* GetRelationByArtistID.  Each is fetchURL of its URL followed by         *)
(* json.Unmarshal into its type; kind names the type.                      *)
(***************************************************************************)
IndexKinds == {"artists", "locationsIndex", "datesIndex", "relationIndex"}
RecordKinds == {"artist", "locations", "dates", "relation"}

EndpointOf(kind) ==
    CASE kind \in {"artists", "artist"} -> ArtistsEndpoint
      [] kind \in {"locationsIndex", "locations"} -> LocationsEndpoint
      [] kind \in {"datesIndex", "dates"} -> DatesEndpoint
      [] kind \in {"relationIndex", "relation"} -> RelationEndpoint

RetrievalURL(kind, id) ==
    IF kind \in IndexKinds THEN EndpointOf(kind)
    ELSE URLWithID(EndpointOf(kind), id)

NilValue == <<>>

\* A variant of the retrieval methods that reports a body that does not
\* decode as a failed request.
RetrieveConflating(r, kind) ==
    IF ~r.ok THEN [err |-> r.err, value |-> NilValue]
    ELSE IF ~UnmarshalOK(r.data, kind)
      THEN [err |-> "request", value |-> NilValue]
    ELSE [err |-> "none", value |-> Unmarshal(r.data, kind)]

\* What a retrieval method returns, given what fetchURL returned (r).
Retrieve(r, kind) ==
    IF ~r.ok THEN [err |-> r.err, value |-> NilValue]
    ELSE IF ~UnmarshalOK(r.data, kind)
      THEN [err |-> "json", value |-> NilValue]
    ELSE [err |-> "none", value |-> Unmarshal(r.data, kind)]

\* History: the URLs of U that have no fresh cache entry.
Cold(U) == {u \in U : ~(u \in DOMAIN cache /\ Fresh(cache[u]))}

\* The thread goes on to the retrieval method of kind, for the call's id.
Proceed(p, stage, kind) ==
    /\ op' = [op EXCEPT ![p].stage = stage, ![p].kind = kind]
    /\ StartFetch(p, RetrievalURL(kind, op[p].id))

CallGet(p, kind, id) ==
    /\ pc[p] = "idle"
    /\ op' = [op EXCEPT ![p] =
          [name |-> "Get", kind |-> kind, id |-> id, stage |-> ""]]
    /\ gets' = [gets EXCEPT ![p] = 0]
    /\ result' = [result EXCEPT ![p] = NoResult]
    /\ StartFetch(p, RetrievalURL(kind, id))
    /\ UNCHANGED acc
    /\ UNCHANGED <<cacheVars, lockVars, envVars>>

GetReturn(p) ==
    /\ op[p].name = "Get"
    /\ pc[p] = "done"
    /\ LET r == Retrieve(ret[p], op[p].kind)
       IN  result' = [result EXCEPT ![p] =
              [NoResult EXCEPT !.op = op[p].kind, !.id = op[p].id,
                               !.err = r.err,
                               !.value = r.value, !.raw = ret[p],
                               !.resp = resp[p]]]
    /\ Leave(p)
    /\ UNCHANGED gets
    /\ UNCHANGED <<cacheVars, lockVars, envVars>>

(***************************************************************************)
(* GetArtistComplete(id).                                                  *)
(***************************************************************************)
ArtistComplete(artist) ==
    [Artist |-> artist, LocationsList |-> <<>>, DatesList |-> <<>>,
     DatesLocations |-> {}]

CompleteURLs(id) == {URLWithID(e, id) : e \in Endpoints}

CallGetArtistComplete(p, id) ==
    /\ pc[p] = "idle"
    /\ op' = [op EXCEPT ![p] =
          [name |-> "GetArtistComplete", kind |-> "artist", id |-> id,
           stage |-> "artist"]]
    /\ gets' = [gets EXCEPT ![p] = 0]
    /\ result' = [result EXCEPT ![p] = NoResult]
    /\ acc' = [acc EXCEPT ![p] = [NoAcc EXCEPT !.cold = Cold(CompleteURLs(id))]]
    /\ StartFetch(p, RetrievalURL("artist", id))
    /\ UNCHANGED <<cacheVars, lockVars, envVars>>

\* A variant of lines 251-258 that goes on to the other lookups when the
\* artist lookup failed.
ArtistFetchedLenient(p) ==
    /\ op[p].name = "GetArtistComplete"
    /\ op[p].stage = "artist"
    /\ pc[p] = "done"
    /\ LET r == Retrieve(ret[p], "artist")
       IN  acc' = [acc EXCEPT ![p].complete = ArtistComplete(r.value),
                              ![p].trace.artist = r.err]
    /\ Proceed(p, "locations", "locations")
    /\ UNCHANGED <<gets, result>>
    /\ UNCHANGED <<cacheVars, lockVars, envVars>>

\* GetArtistByID has returned (lines 251-258).
ArtistFetched(p) ==
    /\ op[p].name = "GetArtistComplete"
    /\ op[p].stage = "artist"
    /\ pc[p] = "done"
    /\ LET r == Retrieve(ret[p], "artist")
           trace == [acc[p].trace EXCEPT !.artist = r.err]
       IN  IF r.err # "none"
             THEN /\ result' = [result EXCEPT ![p] =
                        [NoResult EXCEPT !.op = "GetArtistComplete",
                                         !.id = op[p].id,
                                         !.err = r.err, !.value = NilValue,
                                         !.trace = trace,
                                         !.cold = acc[p].cold]]
                  /\ Leave(p)
             ELSE /\ acc' = [acc EXCEPT ![p].complete = ArtistComplete(r.value),
                                        ![p].trace = trace]
                  /\ Proceed(p, "locations", "locations")
                  /\ result' = result
    /\ UNCHANGED gets
    /\ UNCHANGED <<cacheVars, lockVars, envVars>>

\* A variant of lines 260-263 that returns the error of a failed locations
\* lookup.
LocationsFetchedStrict(p) ==
    /\ op[p].name = "GetArtistComplete"
    /\ op[p].stage = "locations"
    /\ pc[p] = "done"
    /\ LET r == Retrieve(ret[p], "locations")
           trace == [acc[p].trace EXCEPT !.locations = r.err]
       IN  IF r.err # "none"
             THEN /\ result' = [result EXCEPT ![p] =
                        [NoResult EXCEPT !.op = "GetArtistComplete",
                                         !.id = op[p].id,
                                         !.err = r.err, !.value = NilValue,
                                         !.trace = trace,
                                         !.cold = acc[p].cold]]
                  /\ Leave(p)
             ELSE /\ acc' = [acc EXCEPT
                               ![p].complete.LocationsList = r.value.Locations,
                               ![p].trace = trace]
                  /\ Proceed(p, "dates", "dates")
                  /\ result' = result
    /\ UNCHANGED gets
    /\ UNCHANGED <<cacheVars, lockVars, envVars>>

\* GetLocationsByArtistID has returned (lines 260-263).
LocationsFetched(p) ==
    /\ op[p].name = "GetArtistComplete"
    /\ op[p].stage = "locations"
    /\ pc[p] = "done"
    /\ LET r == Retrieve(ret[p], "locations")
       IN  acc' = [acc EXCEPT
                     ![p].complete.LocationsList =
                        IF r.err = "none" THEN r.value.Locations ELSE @,
                     ![p].trace.locations = r.err]
    /\ Proceed(p, "dates", "dates")
    /\ UNCHANGED <<gets, result>>
    /\ UNCHANGED <<cacheVars, lockVars, envVars>>

\* GetDatesByArtistID has returned (lines 265-268).
DatesFetched(p) ==
    /\ op[p].name = "GetArtistComplete"
    /\ op[p].stage = "dates"
    /\ pc[p] = "done"
    /\ LET r == Retrieve(ret[p], "dates")
       IN  acc' = [acc EXCEPT
                     ![p].complete.DatesList =
                        IF r.err = "none" THEN r.value.Dates ELSE @,
                     ![p].trace.dates = r.err]
    /\ Proceed(p, "relation", "relation")
    /\ UNCHANGED <<gets, result>>
    /\ UNCHANGED <<cacheVars, lockVars, envVars>>

\* A variant of lines 270-275 that returns the error of a failed relation
\* lookup.
RelationFetchedStrict(p) ==
    /\ op[p].name = "GetArtistComplete"
    /\ op[p].stage = "relation"
    /\ pc[p] = "done"
    /\ LET r == Retrieve(ret[p], "relation")
           base == [NoResult EXCEPT !.op = "GetArtistComplete",
                                    !.id = op[p].id,
                                    !.trace = [acc[p].trace EXCEPT
                                                 !.relation = r.err],
                                    !.cold = acc[p].cold]
       IN  result' = [result EXCEPT ![p] =
              IF r.err # "none"
                THEN [base EXCEPT !.err = r.err, !.value = NilValue]
                ELSE [base EXCEPT !.err = "none",
                        !.value = [acc[p].complete EXCEPT
                                     !.DatesLocations =
                                        r.value.DatesLocations]]]
    /\ Leave(p)
    /\ UNCHANGED gets
    /\ UNCHANGED <<cacheVars, lockVars, envVars>>

\* GetRelationByArtistID has returned (lines 270-275).
RelationFetched(p) ==
    /\ op[p].name = "GetArtistComplete"
    /\ op[p].stage = "relation"
    /\ pc[p] = "done"
    /\ LET r == Retrieve(ret[p], "relation")
           complete == IF r.err = "none"
                         THEN [acc[p].complete EXCEPT
                                 !.DatesLocations = r.value.DatesLocations]
                         ELSE acc[p].complete
       IN  result' = [result EXCEPT ![p] =
              [NoResult EXCEPT !.op = "GetArtistComplete", !.id = op[p].id,
                               !.err = "none",
                               !.value = complete,
                               !.trace = [acc[p].trace EXCEPT
                                            !.relation = r.err],
                               !.cold = acc[p].cold]]
    /\ Leave(p)
    /\ UNCHANGED gets
    /\ UNCHANGED <<cacheVars, lockVars, envVars>>

(***************************************************************************)
(* GetAllArtistsComplete.                                                  *)
(***************************************************************************)
\* relationsMap (lines 289-292): a later relation of the index replaces an
\* earlier one with the same id.
RelationsMap(index) ==
    [id \in {index[i].ID : i \in DOMAIN index} |->
       LET last == CHOOSE i \in DOMAIN index :
                     /\ index[i].ID = id
                     /\ \A j \in DOMAIN index : index[j].ID = id => j <= i
       IN  index[last]]

\* A variant of lines 294-302 that pairs the artists and the relations by
\* their position in the two indexes.
JoinByPosition(artists, index) ==
    [i \in 1..Len(artists) |->
       IF i \in DOMAIN index
         THEN [ArtistComplete(artists[i]) EXCEPT
                 !.DatesLocations = index[i].DatesLocations]
         ELSE ArtistComplete(artists[i])]

\* A variant of lines 294-302 that gives an artist without a relation the
\* mapping of the first relation of the index.
JoinWithFallback(artists, index) ==
    LET relationsMap == RelationsMap(index)
    IN  [i \in 1..Len(artists) |->
           IF artists[i].ID \in DOMAIN relationsMap
             THEN [ArtistComplete(artists[i]) EXCEPT
                     !.DatesLocations =
                        relationsMap[artists[i].ID].DatesLocations]
           ELSE IF index # <<>>
             THEN [ArtistComplete(artists[i]) EXCEPT
                     !.DatesLocations = index[1].DatesLocations]
           ELSE ArtistComplete(artists[i])]

\* The join of lines 294-302.
JoinArtists(artists, index) ==
    LET relationsMap == RelationsMap(index)
    IN  [i \in 1..Len(artists) |->
           IF artists[i].ID \in DOMAIN relationsMap
             THEN [ArtistComplete(artists[i]) EXCEPT
                     !.DatesLocations =
                        relationsMap[artists[i].ID].DatesLocations]
             ELSE ArtistComplete(artists[i])]

CallGetAllArtistsComplete(p) ==
    /\ pc[p] = "idle"
    /\ op' = [op EXCEPT ![p] =
          [name |-> "GetAllArtistsComplete", kind |-> "artists", id |-> 0,
           stage |-> "artists"]]
    /\ gets' = [gets EXCEPT ![p] = 0]
    /\ result' = [result EXCEPT ![p] = NoResult]
    /\ acc' = [acc EXCEPT ![p] =
          [NoAcc EXCEPT !.cold = Cold({ArtistsEndpoint, RelationEndpoint})]]
    /\ StartFetch(p, RetrievalURL("artists", 0))
    /\ UNCHANGED <<cacheVars, lockVars, envVars>>

\* GetArtists has returned (lines 279-282).
ArtistsFetched(p) ==
    /\ op[p].name = "GetAllArtistsComplete"
    /\ op[p].stage = "artists"
    /\ pc[p] = "done"
    /\ LET r == Retrieve(ret[p], "artists")
           trace == [acc[p].trace EXCEPT !.artist = r.err]
       IN  IF r.err # "none"
             THEN /\ result' = [result EXCEPT ![p] =
                        [NoResult EXCEPT !.op = "GetAllArtistsComplete",
                                         !.err = r.err, !.value = NilValue,
                                         !.trace = trace,
                                         !.cold = acc[p].cold]]
                  /\ Leave(p)
             ELSE /\ acc' = [acc EXCEPT ![p].artists = r.value,
                                        ![p].trace = trace]
                  /\ Proceed(p, "relations", "relationIndex")
                  /\ result' = result
    /\ UNCHANGED gets
    /\ UNCHANGED <<cacheVars, lockVars, envVars>>

\* A variant of lines 284-304 that looks up each artist's relation with a
\* request of its own.
RelationsFetchedPerArtist(p) ==
    /\ op[p].name = "GetAllArtistsComplete"
    /\ op[p].stage = "relations"
    /\ pc[p] = "done"
    /\ LET r == Retrieve(ret[p], "relationIndex")
           base == [NoResult EXCEPT !.op = "GetAllArtistsComplete",
                                    !.trace = [acc[p].trace EXCEPT
                                                 !.relation = r.err],
                                    !.cold = acc[p].cold]
       IN  result' = [result EXCEPT ![p] =
              IF r.err # "none"
                THEN [base EXCEPT !.err = r.err, !.value = NilValue]
                ELSE [base EXCEPT !.err = "none",
                        !.value = JoinArtists(acc[p].artists, r.value.Index)]]
    /\ gets' = [gets EXCEPT ![p] = @ + Len(acc[p].artists)]
    /\ Leave(p)
    /\ UNCHANGED <<cacheVars, lockVars, envVars>>

\* A variant of lines 284-304 that fails when an artist of the index has no
\* relation.
RelationsFetchedStrict(p) ==
    /\ op[p].name = "GetAllArtistsComplete"
    /\ op[p].stage = "relations"
    /\ pc[p] = "done"
    /\ LET r == Retrieve(ret[p], "relationIndex")
           base == [NoResult EXCEPT !.op = "GetAllArtistsComplete",
                                    !.trace = [acc[p].trace EXCEPT
                                                 !.relation = r.err],
                                    !.cold = acc[p].cold]
           missing == r.err = "none" /\
                      \E i \in DOMAIN acc[p].artists :
                         acc[p].artists[i].ID \notin
                            DOMAIN RelationsMap(r.value.Index)
       IN  result' = [result EXCEPT ![p] =
              IF r.err # "none"
                THEN [base EXCEPT !.err = r.err, !.value = NilValue]
              ELSE IF missing
                THEN [base EXCEPT !.err = "relation", !.value = NilValue]
              ELSE [base EXCEPT !.err = "none",
                      !.value = JoinArtists(acc[p].artists, r.value.Index)]]
    /\ Leave(p)
    /\ UNCHANGED gets
    /\ UNCHANGED <<cacheVars, lockVars, envVars>>

\* GetRelations has returned (lines 284-304).
RelationsFetched(p) ==
    /\ op[p].name = "GetAllArtistsComplete"
    /\ op[p].stage = "relations"
    /\ pc[p] = "done"
    /\ LET r == Retrieve(ret[p], "relationIndex")
           base == [NoResult EXCEPT !.op = "GetAllArtistsComplete",
                                    !.trace = [acc[p].trace EXCEPT
                                                 !.relation = r.err],
                                    !.cold = acc[p].cold]
       IN  result' = [result EXCEPT ![p] =
              IF r.err # "none"
                THEN [base EXCEPT !.err = r.err, !.value = NilValue]
                ELSE [base EXCEPT !.err = "none",
                        !.value = JoinArtists(acc[p].artists, r.value.Index)]]
    /\ Leave(p)
    /\ UNCHANGED gets
    /\ UNCHANGED <<cacheVars, lockVars, envVars>>

(***************************************************************************)
(* One caller of the whole client, within one cacheTTL of the client's     *)
(* creation, against an upstream whose documents do not change during a    *)
(* behaviour.  The upstream serves (with status 200) the two indexes       *)
(* GetAllArtistsComplete reads, or the four records GetArtistComplete      *)
(* reads, or the locations and dates indexes; at each URL it serves a      *)
(* document of the API or bytes that are no JSON.  At the other URLs every *)
(* request fails.  A request may fail at any URL.                          *)
(***************************************************************************)
Main == CHOOSE p \in Procs : \A q \in Procs : p <= q

Docs(u) == BodiesFor(u) \cup {Garbage}

Serving(U) ==
    {[u \in URLs |-> IF u \in U THEN {g[u]} ELSE {}] :
       g \in {h \in [U -> UNION {Docs(u) : u \in U}] :
                \A u \in U : h[u] \in Docs(u)}}

UpstreamsAPI ==
    Serving({ArtistsEndpoint, RelationEndpoint})
    \cup Serving({URLWithID(e, 1) : e \in Endpoints})
    \cup Serving({LocationsEndpoint, DatesEndpoint})

InitAPI ==
    /\ InitClient
    /\ upstream \in UpstreamsAPI

NextAPI ==
    \/ \E kind \in IndexKinds : CallGet(Main, kind, 0)
    \/ \E kind \in RecordKinds, id \in ReqIDs : CallGet(Main, kind, id)
    \/ GetReturn(Main)
    \/ \E id \in ReqIDs : CallGetArtistComplete(Main, id)
    \/ ArtistFetched(Main)
    \/ LocationsFetched(Main)
    \/ DatesFetched(Main)
    \/ RelationFetched(Main)
    \/ CallGetAllArtistsComplete(Main)
    \/ ArtistsFetched(Main)
    \/ RelationsFetched(Main)
    \/ RLock(Main)
    \/ Lookup(Main)
    \/ HttpGet(Main)
    \/ Lock(Main)
    \/ Write(Main)

SpecAPI == InitAPI /\ [][NextAPI]_vars

(***************************************************************************)
(* Properties of the client's calls, under SpecAPI.  They compare what a   *)
(* call returned with the documents the upstream serves.                   *)
(***************************************************************************)
\* The document the upstream serves at u.
Served(u) == CHOOSE b \in upstream[u] : TRUE

IsServed(u) == upstream[u] # {}

\* The last call's result.
Returned(name) == result[Main].op = name

Succeeded(name) == Returned(name) /\ result[Main].err = "none"

\* C5: a successful GetAllArtistsComplete returns one ArtistComplete per
\* artist of the artist index, in the order of the index, whose
\* DatesLocations is the mapping of a relation of the relation index with the
\* artist's id, and is empty when the index has no such relation.
C5_JoinInOrder ==
    Succeeded("GetAllArtistsComplete") =>
        /\ IsServed(ArtistsEndpoint)
        /\ IsServed(RelationEndpoint)
        /\ LET artists == Served(ArtistsEndpoint).items
               index == Served(RelationEndpoint).obj.index
               value == result[Main].value
           IN  /\ Len(value) = Len(artists)
               /\ \A i \in 1..Len(artists) :
                    LET matching == {j \in DOMAIN index :
                                       index[j].id = artists[i].id}
                    IN  /\ value[i].Artist.ID = artists[i].id
                        /\ value[i].Artist.Name = artists[i].name
                        /\ IF matching = {}
                             THEN value[i].DatesLocations = {}
                             ELSE \E j \in matching :
                                    value[i].DatesLocations =
                                       index[j].datesLocations

\* GetAllArtistsComplete has returned two different artists, the first
\* without and the second with a relation in the index.
C5_Witness ==
    /\ Succeeded("GetAllArtistsComplete")
    /\ Len(result[Main].value) = MaxIndexLen
    /\ result[Main].value[1].Artist.ID # result[Main].value[2].Artist.ID
    /\ result[Main].value[1].DatesLocations = {}
    /\ result[Main].value[2].DatesLocations # {}

\* C6, as the spec states it: a successful GetAllArtistsComplete has issued
\* exactly two HTTP GETs.
C6_ExactlyTwoGets ==
    Succeeded("GetAllArtistsComplete") => gets[Main] = 2

\* C6: a successful GetAllArtistsComplete has issued one HTTP GET for each
\* of the two index URLs that had no fresh cache entry when it was called,
\* and none for the others: at most two, whatever the number of artists.
C6_OneGetPerColdIndex ==
    Succeeded("GetAllArtistsComplete") =>
        /\ result[Main].cold \subseteq {ArtistsEndpoint, RelationEndpoint}
        /\ gets[Main] = Cardinality(result[Main].cold)

\* GetAllArtistsComplete has returned an index of several artists after
\* one GET for each of the two indexes.
C6_Witness ==
    /\ Succeeded("GetAllArtistsComplete")
    /\ Len(result[Main].value) = MaxIndexLen
    /\ result[Main].cold = {ArtistsEndpoint, RelationEndpoint}
    /\ gets[Main] = Cardinality({ArtistsEndpoint, RelationEndpoint})

\* C7: GetArtistComplete returns an error exactly when GetArtistByID
\* failed.  When it succeeds, the locations, dates and relation lookups
\* have all been made, and each of LocationsList, DatesList and
\* DatesLocations holds the value of the served document when its lookup
\* succeeded and is unset when its lookup failed.
C7_BestEffort ==
    Returned("GetArtistComplete") =>
        LET r == result[Main]
            U(e) == URLWithID(e, r.id)
            Made(t) == t \in {"none", "request", "status", "read", "json"}
        IN  /\ Made(r.trace.artist)
            /\ r.err = r.trace.artist
            /\ r.err # "none" => r.value = NilValue
            /\ r.err = "none" =>
                 /\ Made(r.trace.locations)
                 /\ Made(r.trace.dates)
                 /\ Made(r.trace.relation)
                 /\ r.value.Artist.ID = Served(U(ArtistsEndpoint)).obj.id
                 /\ r.value.LocationsList =
                      IF r.trace.locations = "none"
                        THEN Served(U(LocationsEndpoint)).obj.locations
                        ELSE <<>>
                 /\ r.value.DatesList =
                      IF r.trace.dates = "none"
                        THEN Served(U(DatesEndpoint)).obj.dates
                        ELSE <<>>
                 /\ r.value.DatesLocations =
                      IF r.trace.relation = "none"
                        THEN Served(U(RelationEndpoint)).obj.datesLocations
                        ELSE {}

\* GetArtistComplete has succeeded although the locations lookup failed:
\* LocationsList is unset, the dates and the relation are attached.
C7_Witness ==
    /\ Succeeded("GetArtistComplete")
    /\ result[Main].trace.locations \in {"request", "status", "read", "json"}
    /\ result[Main].trace.dates = "none"
    /\ result[Main].trace.relation = "none"
    /\ result[Main].value.LocationsList = <<>>
    /\ result[Main].value.DatesList # <<>>
    /\ result[Main].value.DatesLocations # {}

\* The upstream serves no relation for id: nothing, bytes that are no JSON
\* object, or an object with another id.
NoRelationFor(id) ==
    \A b \in upstream[URLWithID(RelationEndpoint, id)] :
        b.shape # "object" \/ b.obj.id # id

\* C8: when the upstream has no relation for an artist's id,
\* GetArtistComplete succeeds if the artist lookup does and
\* GetAllArtistsComplete succeeds if the two index lookups do, and the
\* artist's DatesLocations is empty.
C8_NoRelationIsEmpty ==
    LET r == result[Main]
    IN  /\ (/\ Returned("GetArtistComplete")
            /\ r.trace.artist = "none"
            /\ NoRelationFor(r.id))
           => (r.err = "none" /\ r.value.DatesLocations = {})
        /\ (/\ Returned("GetAllArtistsComplete")
            /\ r.trace.artist = "none"
            /\ r.trace.relation = "none")
           => /\ r.err = "none"
              /\ \A i \in DOMAIN r.value :
                   (\A j \in DOMAIN Served(RelationEndpoint).obj.index :
                       Served(RelationEndpoint).obj.index[j].id #
                          r.value[i].Artist.ID)
                   => r.value[i].DatesLocations = {}

\* GetArtistComplete has succeeded for an id whose relation lookup failed
\* with a non-200 status, with its locations and dates attached.
C8_Witness ==
    /\ Succeeded("GetArtistComplete")
    /\ NoRelationFor(result[Main].id)
    /\ result[Main].trace.relation = "status"
    /\ result[Main].value.LocationsList # <<>>
    /\ result[Main].value.DatesLocations = {}

\* C9: GetAllArtistsComplete returns an error exactly when GetArtists
\* failed, or GetArtists succeeded and GetRelations failed; the error is
\* that lookup's.
C9_OnlyIndexFailures ==
    Returned("GetAllArtistsComplete") =>
        LET r == result[Main]
            Failed(t) == t \in {"request", "status", "read", "json"}
        IN  /\ r.err # "none" <=>
                 (Failed(r.trace.artist) \/ Failed(r.trace.relation))
            /\ Failed(r.trace.artist) =>
                 (r.err = r.trace.artist /\ r.trace.relation = "skipped")
            /\ Failed(r.trace.relation) =>
                 (r.err = r.trace.relation /\ r.trace.artist = "none")
            /\ r.err # "none" => r.value = NilValue

\* GetAllArtistsComplete has succeeded with an artist that has no relation
\* in an index that holds a relation.
C9_Witness ==
    /\ Succeeded("GetAllArtistsComplete")
    /\ Served(RelationEndpoint).obj.index # <<>>
    /\ \E i \in DOMAIN result[Main].value :
         \A j \in DOMAIN Served(RelationEndpoint).obj.index :
            Served(RelationEndpoint).obj.index[j].id #
               result[Main].value[i].Artist.ID

\* C10: a retrieval method reports "request" exactly when its GET failed in
\* transport, "status" exactly when the response had a status other than
\* 200, and "json" exactly when fetchURL returned bytes that do not decode
\* into the method's type.
C10_DistinctFailures ==
    (result[Main].op \in IndexKinds \cup RecordKinds) =>
        LET r == result[Main]
            decodes == IF r.op = "artists" THEN r.raw.data.shape = "array"
                       ELSE r.raw.data.shape = "object"
        IN  /\ r.err = "request" <=> (r.resp.sent /\ r.resp.neterr)
            /\ r.err = "status" <=>
                 (r.resp.sent /\ ~r.resp.neterr /\ r.resp.status # StatusOK)
            /\ r.err = "json" <=> (r.raw.ok /\ ~decodes)
            /\ r.err = "none" <=> (r.raw.ok /\ decodes)
            /\ r.err = "json" =>
                 (r.raw.hit \/ (r.resp.status = StatusOK /\ ~r.resp.readerr))

\* GetRelationByArtistID has reported a decode failure for bytes it took
\* from the cache, without a request.
C10_Witness ==
    /\ result[Main].op = "relation"
    /\ result[Main].err = "json"
    /\ result[Main].raw.hit
    /\ ~result[Main].resp.sent

\* C14, as the spec states it: in a returned ArtistComplete of an artist
\* for whose id the upstream has no relation, LocationsList, DatesList and
\* DatesLocations are all empty.
C14_AllEmptyWithoutRelation ==
    /\ (Succeeded("GetArtistComplete") /\ NoRelationFor(result[Main].id))
       => /\ result[Main].value.LocationsList = <<>>
          /\ result[Main].value.DatesList = <<>>
          /\ result[Main].value.DatesLocations = {}
    /\ Succeeded("GetAllArtistsComplete")
       => \A i \in DOMAIN result[Main].value :
            (\A j \in DOMAIN Served(RelationEndpoint).obj.index :
                Served(RelationEndpoint).obj.index[j].id #
                   result[Main].value[i].Artist.ID)
            => /\ result[Main].value[i].LocationsList = <<>>
               /\ result[Main].value[i].DatesList = <<>>
               /\ result[Main].value[i].DatesLocations = {}

\* C14: DatesLocations is populated only when the upstream has a relation
\* with the artist's id.  LocationsList and DatesList do not depend on the
\* relation: GetArtistComplete populates each only when its own lookup
\* succeeded, GetAllArtistsComplete never populates them.  The absence of a
\* relation is no error.
C14_JoinedPerLookup ==
    LET r == result[Main]
    IN  /\ Succeeded("GetArtistComplete") =>
             /\ r.value.DatesLocations # {} =>
                  (r.trace.relation = "none" /\ ~NoRelationFor(r.id))
             /\ r.value.LocationsList # <<>> =>
                  /\ r.trace.locations = "none"
                  /\ IsServed(URLWithID(LocationsEndpoint, r.id))
             /\ r.value.DatesList # <<>> =>
                  /\ r.trace.dates = "none"
                  /\ IsServed(URLWithID(DatesEndpoint, r.id))
        /\ (/\ Returned("GetArtistComplete")
            /\ NoRelationFor(r.id)
            /\ r.err # "none")
           => r.trace.artist = r.err
        /\ Succeeded("GetAllArtistsComplete") =>
             \A i \in DOMAIN r.value :
                /\ r.value[i].LocationsList = <<>>
                /\ r.value[i].DatesList = <<>>
                /\ r.value[i].DatesLocations # {} =>
                     \E j \in DOMAIN Served(RelationEndpoint).obj.index :
                        Served(RelationEndpoint).obj.index[j].id =
                           r.value[i].Artist.ID

\* GetArtistComplete has returned, for an id whose relation record is
\* empty, an ArtistComplete with locations and dates and no DatesLocations.
C14_Witness ==
    /\ Succeeded("GetArtistComplete")
    /\ NoRelationFor(result[Main].id)
    /\ result[Main].trace.relation = "none"
    /\ result[Main].value.LocationsList # <<>>
    /\ result[Main].value.DatesList # <<>>
    /\ result[Main].value.DatesLocations = {}

(***************************************************************************)
(* One caller of fetchURL and ClearCache over URLs that differ by the id   *)
(* only, by the presence of an id only, and by the resource.               *)
(***************************************************************************)
KeyURLs ==
    {ArtistsEndpoint} \cup {URLWithID(ArtistsEndpoint, i) : i \in IDs}
    \cup {URLWithID(RelationEndpoint, i) : i \in ReqIDs}

InitKeys ==
    /\ InitClient
    /\ upstream = [u \in KeyURLs |-> BodiesFor(u)]

NextKeys ==
    \/ Tick
    \/ \E u \in KeyURLs : CallFetchURL(Main, u)
    \/ RLock(Main)
    \/ Lookup(Main)
    \/ HttpGet(Main)
    \/ Lock(Main)
    \/ Write(Main)
    \/ FetchURLReturn(Main)
    \/ CallClearCache(Main)
    \/ ClearLock(Main)
    \/ Clear(Main)

SpecKeys == InitKeys /\ [][NextKeys]_vars

\* C15: fetchURL(u) returns from the cache exactly when the cache holds a
\* fresh entry under u itself, and then returns that entry's bytes; no step
\* of the call adds, removes or changes the entry of another URL, and its
\* insert adds the key u and no other.
C15_ExactURLKey ==
    [][LET p == Main
           InFetch == pc[p] \in {"rlock", "lookup", "get", "lock", "write"}
       IN  /\ (pc[p] = "lookup" /\ pc'[p] # "lookup") =>
                 /\ pc'[p] = "done" <=>
                      /\ url[p] \in DOMAIN cache
                      /\ now - cache[url[p]].timestamp < cacheTTL
                 /\ pc'[p] = "done" =>
                      ret'[p].data = cache[url[p]].data
                 /\ pc'[p] # "done" => pc'[p] = "get"
           /\ (InFetch /\ pc'[p] # pc[p]) =>
                 /\ \A u \in KeyURLs \ {url[p]} :
                      /\ u \in DOMAIN cache' <=> u \in DOMAIN cache
                      /\ u \in DOMAIN cache => cache'[u] = cache[u]
                 /\ DOMAIN cache' \subseteq DOMAIN cache \cup {url[p]}
           /\ (pc[p] = "write" /\ pc'[p] # "write") =>
                 DOMAIN cache' = DOMAIN cache \cup {url[p]}]_vars

\* A lookup for the artist of id 2 goes on to the GET although the cache
\* holds fresh entries for the artist index and for the artist of id 1.
C15_Witness ==
    /\ pc[Main] = "get"
    /\ url[Main] = URLWithID(ArtistsEndpoint, 2)
    /\ ~seen[Main].exists
    /\ \A u \in {ArtistsEndpoint, URLWithID(ArtistsEndpoint, 1)} :
         u \in DOMAIN cache /\ Fresh(cache[u])

(***************************************************************************)
(* The web handlers (lines 381-443).  A request is a path, a method and    *)
(* the value of the query parameter id, a string of characters; the        *)
(* response is the status code handleError or the template writes.         *)
(***************************************************************************)
MaxIdLen == 2          \* longest value of the id parameter

Chars == {"0", "1", "a", "-"}
Digits == {"0", "1"}
IdStrings == SeqsUpTo(Chars, MaxIdLen)
Methods == {"GET", "HEAD", "POST"}
Paths == {"/", "/x"}

DigitValue(c) == IF c = "1" THEN 1 ELSE 0

\* The longest prefix of s made of digits.
RECURSIVE DigitsPrefix(_)
DigitsPrefix(s) ==
    IF s = <<>> \/ s[1] \notin Digits
      THEN <<>>
      ELSE <<s[1]>> \o DigitsPrefix(Tail(s))

\* The value of a string of decimal digits.
RECURSIVE Atoi(_)
Atoi(s) ==
    IF s = <<>>
      THEN 0
      ELSE 10 * Atoi(SubSeq(s, 1, Len(s) - 1)) + DigitValue(s[Len(s)])

\* fmt.Sscanf(idStr, "%d", &id) (line 422): an optional sign, then the
\* digits that follow it; the scan fails when there is no digit, and stops
\* at the first character that is no digit, leaving the rest unread.  id
\* keeps its zero value when the scan fails.
Sscanf(s) ==
    LET neg == s # <<>> /\ s[1] = "-"
        rest == IF neg THEN Tail(s) ELSE s
        tok == DigitsPrefix(rest)
    IN  [ok |-> tok # <<>>,
         id |-> IF neg THEN 0 - Atoi(tok) ELSE Atoi(tok)]

\* The string is a decimal number: an optional sign and digits, nothing else.
IsNumber(s) ==
    LET rest == IF s # <<>> /\ s[1] = "-" THEN Tail(s) ELSE s
    IN  rest # <<>> /\ \A i \in 1..Len(rest) : rest[i] \in Digits

\* The ids a request can make the handler ask the client for.
WebIDs == {i \in {Sscanf(s).id : s \in IdStrings} : i >= 1}

WebURLs == Endpoints \cup {URLWithID(e, i) : e \in Endpoints, i \in WebIDs}

\* handleError (lines 340-353) and a rendered page: the header is written
\* with the code.
Respond(p, code) ==
    web' = [web EXCEPT ![p].status = code, ![p].stage = "responded"]

\* A request arrives at the handler on thread p.
Receive(p) ==
    /\ pc[p] = "idle"
    /\ web[p].stage \in {"none", "responded"}
    /\ result' = [result EXCEPT ![p] = NoResult]
    /\ gets' = [gets EXCEPT ![p] = 0]
    /\ UNCHANGED <<now, upstream, cacheVars, lockVars, fetchVars, op, acc>>

\* homeHandler up to the call of the client (lines 381-390).
HomeRequest(p, path, method) ==
    /\ Receive(p)
    /\ LET req == [NoWeb EXCEPT !.handler = "home", !.path = path,
                                !.method = method]
       IN  IF path # "/"
             THEN web' = [web EXCEPT ![p] =
                     [req EXCEPT !.status = 404, !.stage = "responded"]]
           ELSE IF method \notin {"GET", "HEAD"}
             THEN web' = [web EXCEPT ![p] =
                     [req EXCEPT !.status = 405, !.stage = "responded"]]
           ELSE web' = [web EXCEPT ![p] = [req EXCEPT !.stage = "calling"]]

\* apiClient.GetAllArtistsComplete() (line 392)
HomeCall(p) ==
    /\ web[p].handler = "home"
    /\ web[p].stage = "calling"
    /\ result[p] = NoResult
    /\ CallGetAllArtistsComplete(p)

\* homeHandler after the call (lines 393-406): 500 when the call failed or
\* the template cannot be executed.
HomeRespond(p) ==
    /\ web[p].handler = "home"
    /\ web[p].stage = "calling"
    /\ pc[p] = "idle"
    /\ result[p].op = "GetAllArtistsComplete"
    /\ IF result[p].err # "none"
         THEN Respond(p, 500)
         ELSE \E code \in {200, 500} : Respond(p, code)
    /\ UNCHANGED <<now, upstream, cacheVars, lockVars, fetchVars, callVars>>

\* artistHandler up to the call of the client (lines 409-426).
ArtistRequest(p, method, idStr) ==
    /\ Receive(p)
    /\ LET req == [NoWeb EXCEPT !.handler = "artist", !.path = "/artist",
                                !.method = method, !.idStr = idStr]
           scan == Sscanf(idStr)
       IN  IF method \notin {"GET", "HEAD"}
             THEN web' = [web EXCEPT ![p] =
                     [req EXCEPT !.status = 405, !.stage = "responded"]]
           ELSE IF idStr = <<>>
             THEN web' = [web EXCEPT ![p] =
                     [req EXCEPT !.status = 400, !.stage = "responded"]]
           ELSE IF ~scan.ok \/ scan.id < 1
             THEN web' = [web EXCEPT ![p] =
                     [req EXCEPT !.id = scan.id, !.status = 400,
                                 !.stage = "responded"]]
           ELSE web' = [web EXCEPT ![p] =
                   [req EXCEPT !.id = scan.id, !.stage = "calling"]]

\* apiClient.GetArtistComplete(id) (line 428)
ArtistCall(p) ==
    /\ web[p].handler = "artist"
    /\ web[p].stage = "calling"
    /\ result[p] = NoResult
    /\ CallGetArtistComplete(p, web[p].id)

\* artistHandler after the call (lines 429-442): 404 when the call failed,
\* 500 when the template cannot be executed.
ArtistRespond(p) ==
    /\ web[p].handler = "artist"
    /\ web[p].stage = "calling"
    /\ pc[p] = "idle"
    /\ result[p].op = "GetArtistComplete"
    /\ IF result[p].err # "none"
         THEN Respond(p, 404)
         ELSE \E code \in {200, 500} : Respond(p, code)
    /\ UNCHANGED <<now, upstream, cacheVars, lockVars, fetchVars, callVars>>

\* What the upstream serves to the handlers' calls: the empty indexes and
\* the records of artist 1, bytes that are no JSON in place of the artists;
\* nothing for another id.
WebDocs(u) ==
    IF u = ArtistsEndpoint THEN {JArray(<<>>), Garbage}
    ELSE IF u = RelationEndpoint THEN {JObject(IndexObj(<<>>))}
    ELSE IF u = URLWithID(ArtistsEndpoint, 1) THEN Docs(u)
    ELSE IF u \in CompleteURLs(1) THEN BodiesFor(u)
    ELSE {}

InitWeb ==
    /\ InitClient
    /\ upstream = [u \in WebURLs |-> WebDocs(u)]

NextWeb ==
    \/ \E path \in Paths, method \in Methods : HomeRequest(Main, path, method)
    \/ HomeCall(Main)
    \/ HomeRespond(Main)
    \/ \E method \in Methods, idStr \in IdStrings :
         ArtistRequest(Main, method, idStr)
    \/ ArtistCall(Main)
    \/ ArtistRespond(Main)
    \/ ArtistFetched(Main)
    \/ LocationsFetched(Main)
    \/ DatesFetched(Main)
    \/ RelationFetched(Main)
    \/ ArtistsFetched(Main)
    \/ RelationsFetched(Main)
    \/ RLock(Main)
    \/ Lookup(Main)
    \/ HttpGet(Main)
    \/ Lock(Main)
    \/ Write(Main)

SpecWeb == InitWeb /\ [][NextWeb]_vars

\* The handler of the request on thread p answered without the client.
NoUpstreamCall(p) == result[p] = NoResult /\ gets[p] = 0

\* C17: homeHandler answers 404 for a path other than "/" and 405 for a
\* method other than GET or HEAD without any upstream call, and 500 when
\* GetAllArtistsComplete fails; artistHandler answers 405 for a method other
\* than GET or HEAD, 400 when the id parameter is missing, not a number or
\* less than 1, all without any upstream call, and 404 when
\* GetArtistComplete fails.
C17_ValidateThenMapFailures ==
    \A p \in Procs :
      LET w == web[p]
          allowed == w.method \in {"GET", "HEAD"}
      IN  w.stage = "responded" =>
            /\ (w.handler = "home" /\ w.path # "/") =>
                  w.status = 404 /\ NoUpstreamCall(p)
            /\ (w.handler = "home" /\ w.path = "/" /\ ~allowed) =>
                  w.status = 405 /\ NoUpstreamCall(p)
            /\ (w.handler = "home" /\ result[p].err # "none") =>
                  w.status = 500
            /\ (w.handler = "artist" /\ ~allowed) =>
                  w.status = 405 /\ NoUpstreamCall(p)
            /\ (/\ w.handler = "artist"
                /\ allowed
                /\ \/ w.idStr = <<>>
                   \/ ~IsNumber(w.idStr)
                   \/ Sscanf(w.idStr).id < 1) =>
                  w.status = 400 /\ NoUpstreamCall(p)
            /\ (w.handler = "artist" /\ result[p].err # "none") =>
                  w.status = 404

\* The retrieval method whose fetchURL call returned r reports a failure.
LookupFailed(r, kind) == ~r.ok \/ ~UnmarshalOK(r.data, kind)

\* C19: GetArtistComplete(id) fetches the artist, then the locations, then
\* the dates, then the relation of the id, one after the other, each only
\* after the one before has returned, with at most four GETs; when the
\* artist lookup fails the call returns at once with the error, and none of
\* the three other URLs that were not cached has an entry; likewise
\* GetAllArtistsComplete fetches the artist index, then the relation index
\* only when the artist lookup succeeded, with at most two GETs, and the
\* artist index fetched successfully is still cached when the relation
\* index lookup fails.
C19_SequentialShortCircuit ==
    [][LET p == Main
           id == op'[p].id
           starts == pc[p] # "rlock" /\ pc'[p] = "rlock"
           leaves == pc[p] = "done" /\ pc'[p] # "done"
           complete == op[p].name = "GetArtistComplete"
           all == op[p].name = "GetAllArtistsComplete"
           at(e) == url[p] = URLWithID(e, op[p].id)
           others == {URLWithID(e, op[p].id) :
                        e \in Endpoints \ {ArtistsEndpoint}}
       IN  /\ (starts /\ op'[p].name = "GetArtistComplete") =>
                 \/ /\ pc[p] = "idle"
                    /\ url'[p] = URLWithID(ArtistsEndpoint, id)
                 \/ /\ leaves /\ complete /\ op[p].id = id
                    /\ \/ /\ at(ArtistsEndpoint)
                          /\ ~LookupFailed(ret[p], "artist")
                          /\ url'[p] = URLWithID(LocationsEndpoint, id)
                       \/ /\ at(LocationsEndpoint)
                          /\ url'[p] = URLWithID(DatesEndpoint, id)
                       \/ /\ at(DatesEndpoint)
                          /\ url'[p] = URLWithID(RelationEndpoint, id)
           /\ (leaves /\ complete /\ at(RelationEndpoint)) =>
                 /\ pc'[p] = "idle"
                 /\ result'[p].op = "GetArtistComplete"
           /\ op'[p].name = "GetArtistComplete" => gets'[p] <= 4
           /\ (/\ leaves /\ complete /\ at(ArtistsEndpoint)
               /\ LookupFailed(ret[p], "artist")) =>
                 /\ pc'[p] = "idle"
                 /\ result'[p].op = "GetArtistComplete"
                 /\ result'[p].err # "none"
                 /\ gets'[p] <= 1
                 /\ \A u \in others \cap acc[p].cold :
                      u \notin DOMAIN cache'
           /\ (starts /\ op'[p].name = "GetAllArtistsComplete") =>
                 \/ /\ pc[p] = "idle"
                    /\ url'[p] = ArtistsEndpoint
                 \/ /\ leaves /\ all
                    /\ url[p] = ArtistsEndpoint
                    /\ ~LookupFailed(ret[p], "artists")
                    /\ url'[p] = RelationEndpoint
           /\ op'[p].name = "GetAllArtistsComplete" => gets'[p] <= 2
           /\ (/\ leaves /\ all /\ url[p] = ArtistsEndpoint
               /\ LookupFailed(ret[p], "artists")) =>
                 /\ pc'[p] = "idle"
                 /\ result'[p].op = "GetAllArtistsComplete"
                 /\ result'[p].err # "none"
                 /\ gets'[p] <= 1
                 /\ RelationEndpoint \in acc[p].cold =>
                      RelationEndpoint \notin DOMAIN cache'
           /\ (/\ leaves /\ all /\ url[p] = RelationEndpoint
               /\ LookupFailed(ret[p], "relationIndex")) =>
                 /\ pc'[p] = "idle"
                 /\ result'[p].err # "none"
                 /\ ArtistsEndpoint \in acc[p].cold =>
                      /\ ArtistsEndpoint \in DOMAIN cache'
                      /\ UnmarshalOK(cache'[ArtistsEndpoint].data, "artists")
                      /\ cache'[ArtistsEndpoint].timestamp = now]_vars

\* GetArtistComplete(1) has returned the error of an artist record that is
\* no JSON after one GET: the bytes are cached, and none of the locations,
\* dates and relation of the id has an entry.
C19_Witness ==
    /\ result[Main].op = "GetArtistComplete"
    /\ result[Main].err = "json"
    /\ gets[Main] = 1
    /\ pc[Main] = "idle"
    /\ DOMAIN cache \cap CompleteURLs(1) = {URLWithID(ArtistsEndpoint, 1)}

=============================================================================
